---- MODULE Spec2Model ----
(***************************************************************************)
(* Model of app.py, the Strava running dashboard: one pass                 *)
(*   get_strava_activities -> process_activities -> display stages.        *)
(*                                                                         *)
(* Units.  Python floats are modelled by exact arithmetic:                 *)
(*   distance              integer metres (None when missing)              *)
(*   'Distancia (km)'      integer hundredths of a km (two decimals)       *)
(*   'Tiempo (min)'        integer hundredths of a minute (two decimals)   *)
(*   'Ritmo (seg/km)'      a rational <<num, den>> in lowest terms         *)
(*   'Fecha'               integer seconds (the strftime format has second *)
(*                         resolution and to_datetime parses it back)      *)
(* The input values below were chosen so that the float results of the     *)
(* program coincide with the exact ones (no decimal tie that is inexact in *)
(* binary, no quotient one ulp away from an integer).                      *)
(* Strings are sequences of one-character strings.                         *)
(***************************************************************************)
EXTENDS Integers, Sequences, FiniteSets, TLC

VARIABLES pc, remote, access_token, activities, df_runs, kpi, metrics, best, screen, fault

vars == <<pc, remote, access_token, activities, df_runs, kpi, metrics, best, screen, fault>>

----------------------------------------------------------------------------
(* Bounds and input values *)

MaxActs == 2

Limit == 100

None == -1

DistanceValues == {None, 500, 1000, 2000}
TimeValues == {0, 300}
ElevationValues == {None, 50}
DateValues == {1, 2}

GridDistanceValues == {None, 0, 4, 125, 500, 996, 1000, 2500}
GridTimeValues == {None, 0, 59, 315, 7000}

OlderCounts == {0, 99}

----------------------------------------------------------------------------
(* Python values *)

Truthy(x) == x # None /\ x # 0

RECURSIVE GCD(_, _)
GCD(a, b) == IF b = 0 THEN a ELSE GCD(b, a % b)

Rat(n, d) == LET g == GCD(n, d) IN <<n \div g, d \div g>>

Zero == <<0, 1>>

NaN == <<0, 0>>

ZeroDivisionError == <<1, 0>>

IsFinite(x) == x[2] # 0

RatAdd(x, y) == Rat(x[1] * y[2] + y[1] * x[2], x[2] * y[2])

RatLess(x, y) == x[1] * y[2] < y[1] * x[2]

RatPos(x) == IsFinite(x) /\ x[1] > 0

Floor(x) == x[1] \div x[2]

PyFloorDiv(x, k) == IF IsFinite(x) THEN Rat(Floor(x) \div k, 1) ELSE NaN

PyMod(x, k) == IF IsFinite(x) THEN Rat(x[1] - k * (Floor(x) \div k) * x[2], x[2]) ELSE NaN

PyInt(x) == Floor(x)

TrueDiv(n, d) == IF d = 0 THEN ZeroDivisionError ELSE Rat(n, d)

RoundHalfEven(n, d) ==
    LET q == n \div d
        r == n % d
    IN  IF 2 * r < d THEN q
        ELSE IF 2 * r > d THEN q + 1
        ELSE IF q % 2 = 0 THEN q ELSE q + 1

DigitChar(d) == <<"0", "1", "2", "3", "4", "5", "6", "7", "8", "9">>[d + 1]

RECURSIVE Str(_)
Str(n) == IF n < 10 THEN <<DigitChar(n)>> ELSE Str(n \div 10) \o <<DigitChar(n % 10)>>

Fmt02d_unpadded(n) == Str(n)

Fmt02d(n) == IF n < 10 THEN <<"0">> \o Str(n) ELSE Str(n)

----------------------------------------------------------------------------
(* The activities of the account *)

(* A non-'Run' activity: line 40 reads its type and nothing else. *)
Ride == [type |-> "Ride", distance |-> 2000, moving_time |-> 300,
         total_elevation_gain |-> 50, start_date_local |-> 1]

RunPool ==
    [type : {"Run"}, distance : DistanceValues, moving_time : TimeValues,
     total_elevation_gain : ElevationValues, start_date_local : DateValues]

RunGrid ==
    [type : {"Run"}, distance : GridDistanceValues, moving_time : GridTimeValues,
     total_elevation_gain : ElevationValues, start_date_local : DateValues]

ActivityPool == RunPool \cup {Ride}

SeqsUpTo(S, n) == UNION {[1..k -> S] : k \in 0..n}

(* The newest activities of the account: every list of up to MaxActs       *)
(* activities of the pool, and every single run of the finer grid.         *)
Recent == SeqsUpTo(ActivityPool, MaxActs) \cup {<<a>> : a \in RunGrid}

(* Older activities behind them, so that the account can exceed the limit. *)
Older(k) == [i \in 1..k |-> Ride]

WithIds(s) ==
    [i \in 1..Len(s) |->
        [id |-> i, type |-> s[i].type, distance |-> s[i].distance,
         moving_time |-> s[i].moving_time,
         total_elevation_gain |-> s[i].total_elevation_gain,
         start_date_local |-> s[i].start_date_local]]

----------------------------------------------------------------------------
(* get_strava_activities *)

Take(s, n) == IF Len(s) <= n THEN s ELSE SubSeq(s, 1, n)

get_activities_unlimited(account, limit) == account

get_activities(account, limit) == Take(account, limit)

except_return == <<>>

----------------------------------------------------------------------------
(* process_activities *)

IsRun_unfiltered(act) == act.type \in {"Run", "Ride"}

IsRun(act) == act.type = "Run"

distancia_km(act) ==
    IF Truthy(act.distance) THEN RoundHalfEven(act.distance, 10) ELSE 0

moving_time_seconds(act) ==
    IF Truthy(act.moving_time) THEN act.moving_time ELSE 0

tiempo_min(act) == RoundHalfEven(100 * moving_time_seconds(act), 60)

ritmo_unguarded(seconds, km) == TrueDiv(100 * seconds, km)

ritmo_total_segundos(seconds, km) ==
    IF seconds > 0 /\ km > 0 THEN TrueDiv(100 * seconds, km) ELSE Zero

desnivel(act) ==
    IF Truthy(act.total_elevation_gain) THEN act.total_elevation_gain ELSE 0

(* "%Y-%m-%d %H:%M:%S" and pd.to_datetime: the API gives start_date_local  *)
(* in whole seconds, which the format keeps and the parse restores.        *)
strftime(d) == d

ritmo_min_km(s) ==
    IF RatPos(s)
    THEN Fmt02d(PyInt(PyFloorDiv(s, 60))) \o <<":">> \o Fmt02d(PyInt(PyMod(s, 60)))
    ELSE <<"N", "/", "A">>

Row(act) ==
    [ID |-> act.id,
     Tipo |-> act.type,
     Distancia_km |-> distancia_km(act),
     Tiempo_min |-> tiempo_min(act),
     Desnivel_m |-> desnivel(act),
     Ritmo_seg_km |-> ritmo_total_segundos(moving_time_seconds(act), distancia_km(act)),
     Fecha |-> strftime(act.start_date_local)]

processed_data(acts) ==
    LET runs == SelectSeq(acts, IsRun)
    IN  [i \in 1..Len(runs) |-> Row(runs[i])]

Descending(rows, p) ==
    \A i \in 1..(Len(rows) - 1) : rows[p[i]].Fecha >= rows[p[i + 1]].Fecha

sort_values_ascending(rows) ==
    {[i \in 1..Len(rows) |-> rows[p[i]]] :
        p \in {q \in Permutations(1..Len(rows)) :
                  \A i \in 1..(Len(rows) - 1) : rows[q[i]].Fecha <= rows[q[i + 1]].Fecha}}

(* sort_values("Fecha", ascending=False) with pandas' default, unstable    *)
(* sort: any descending arrangement, rows of equal Fecha in either order.  *)
sort_values(rows) ==
    {[i \in 1..Len(rows) |-> rows[p[i]]] :
        p \in {q \in Permutations(1..Len(rows)) : Descending(rows, q)}}

(* reset_index(drop=True) and the 'Ritmo (min/km)' column. *)
Finish(rows) ==
    [i \in 1..Len(rows) |->
        [index |-> i - 1,
         ID |-> rows[i].ID,
         Tipo |-> rows[i].Tipo,
         Distancia_km |-> rows[i].Distancia_km,
         Tiempo_min |-> rows[i].Tiempo_min,
         Desnivel_m |-> rows[i].Desnivel_m,
         Ritmo_seg_km |-> rows[i].Ritmo_seg_km,
         Fecha |-> rows[i].Fecha,
         Ritmo_min_km |-> ritmo_min_km(rows[i].Ritmo_seg_km)]]

Raises(rows) == \E i \in 1..Len(rows) : rows[i].Ritmo_seg_km = ZeroDivisionError

process_activities(acts) ==
    LET rows == processed_data(acts)
    IN  IF rows = <<>> THEN {<<>>}
        ELSE {Finish(t) : t \in sort_values(rows)}

----------------------------------------------------------------------------
(* Summary (KPI) stage *)

RECURSIVE SumInt(_)
SumInt(s) == IF s = <<>> THEN 0 ELSE s[1] + SumInt(Tail(s))

RECURSIVE SumRat(_)
SumRat(s) == IF s = <<>> THEN Zero ELSE RatAdd(s[1], SumRat(Tail(s)))

total_distance(rows) == SumInt([i \in 1..Len(rows) |-> rows[i].Distancia_km])

total_time(rows) == SumInt([i \in 1..Len(rows) |-> rows[i].Tiempo_min])

total_desnivel(rows) == SumInt([i \in 1..Len(rows) |-> rows[i].Desnivel_m])

HasPace(r) == RatPos(r.Ritmo_seg_km)

(* Series.mean(): NaN for an empty selection. *)
mean(s) == IF s = <<>> THEN NaN ELSE LET t == SumRat(s) IN Rat(t[1], t[2] * Len(s))

avg_pace(rows) ==
    LET paced == SelectSeq(rows, HasPace)
    IN  mean([i \in 1..Len(paced) |-> paced[i].Ritmo_seg_km])

horas_of(total) == PyInt(PyFloorDiv(Rat(total, 100), 60))

minutos_of(total) == PyInt(PyMod(Rat(total, 100), 60))

Fmt2f(c) == Str(c \div 100) \o <<".">> \o Fmt02d(c % 100)

----------------------------------------------------------------------------
(* Best-marks stage *)

AtLeastOneKm(r) == r.Distancia_km >= 100

df_significant(rows) == SelectSeq(rows, AtLeastOneKm)

loc(rows, label) == CHOOSE r \in {rows[i] : i \in 1..Len(rows)} : r.index = label

(* idxmax / idxmin: the index label of the first extreme value; loc maps   *)
(* the label back to the row.  idxmin of an empty selection raises.        *)
idxmax(col) ==
    LET i == CHOOSE i \in 1..Len(col) :
                 /\ \A j \in 1..Len(col) : col[j].value <= col[i].value
                 /\ \A j \in 1..(i - 1) : col[j].value < col[i].value
    IN  col[i].index

idxmin_ritmo(rows) ==
    LET i == CHOOSE i \in 1..Len(rows) :
                 /\ \A j \in 1..Len(rows) : ~RatLess(rows[j].Ritmo_seg_km, rows[i].Ritmo_seg_km)
                 /\ \A j \in 1..(i - 1) : RatLess(rows[i].Ritmo_seg_km, rows[j].Ritmo_seg_km)
    IN  rows[i].index

fastest_candidates(sig) == SelectSeq(sig, HasPace)

longest_run(sig) ==
    loc(sig, idxmax([i \in 1..Len(sig) |-> [index |-> sig[i].index, value |-> sig[i].Distancia_km]]))

fastest_run(sig) == loc(sig, idxmin_ritmo(fastest_candidates(sig)))

most_elevation_run(sig) ==
    loc(sig, idxmax([i \in 1..Len(sig) |-> [index |-> sig[i].index, value |-> sig[i].Desnivel_m]]))

----------------------------------------------------------------------------
(* The script *)

NoKpi == [total_km |-> None, total_time_min |-> None, total_elevation |-> None,
          avg_pace_seconds |-> NaN, horas |-> None, minutos |-> None]

NoMetrics == [distancia |-> <<>>, tiempo |-> <<>>, desnivel |-> <<>>, ritmo |-> <<>>]

Init ==
    /\ pc = "fetch"
    /\ \E r \in Recent, k \in OlderCounts : remote = WithIds(r \o Older(k))
    /\ access_token = "none"
    /\ activities = <<>>
    /\ df_runs = <<>>
    /\ kpi = NoKpi
    /\ metrics = NoMetrics
    /\ best = <<>>
    /\ screen = <<>>
    /\ fault = "none"

(* lines 19-23 raise: the except clause reports and returns [] *)
RefreshFails ==
    /\ pc = "fetch"
    /\ activities' = except_return
    /\ screen' = Append(screen, "error")
    /\ pc' = "fetched"
    /\ UNCHANGED <<remote, access_token, df_runs, kpi, metrics, best, fault>>

(* line 27 raises after the token was stored *)
ListFails ==
    /\ pc = "fetch"
    /\ access_token' = "fresh"
    /\ activities' = except_return
    /\ screen' = Append(screen, "error")
    /\ pc' = "fetched"
    /\ UNCHANGED <<remote, df_runs, kpi, metrics, best, fault>>

Fetch ==
    /\ pc = "fetch"
    /\ access_token' = "fresh"
    /\ activities' = get_activities(remote, Limit)
    /\ pc' = "fetched"
    /\ UNCHANGED <<remote, df_runs, kpi, metrics, best, screen, fault>>

Warning ==
    /\ pc = "fetched"
    /\ activities = <<>>
    /\ screen' = Append(screen, "warning")
    /\ pc' = "done"
    /\ UNCHANGED <<remote, access_token, activities, df_runs, kpi, metrics, best, fault>>

(* line 94; a ZeroDivisionError of line 58 would end the run here. *)
Process ==
    /\ pc = "fetched"
    /\ activities # <<>>
    /\ IF Raises(processed_data(activities))
       THEN /\ pc' = "fault"
            /\ fault' = "ZeroDivisionError"
            /\ UNCHANGED df_runs
       ELSE /\ df_runs' \in process_activities(activities)
            /\ pc' = "processed"
            /\ UNCHANGED fault
    /\ UNCHANGED <<remote, access_token, activities, kpi, metrics, best, screen>>

Info ==
    /\ pc = "processed"
    /\ df_runs = <<>>
    /\ screen' = Append(screen, "info")
    /\ pc' = "done"
    /\ UNCHANGED <<remote, access_token, activities, df_runs, kpi, metrics, best, fault>>

Success ==
    /\ pc = "processed"
    /\ df_runs # <<>>
    /\ screen' = Append(screen, "success")
    /\ pc' = "kpi"
    /\ UNCHANGED <<remote, access_token, activities, df_runs, kpi, metrics, best, fault>>

(* lines 104-121: int() of a NaN raises ValueError at line 114, after the  *)
(* totals, horas and minutos have been computed and before any metric.     *)
Summary ==
    /\ pc = "kpi"
    /\ LET avg == avg_pace(df_runs)
           total == total_time(df_runs)
       IN  /\ kpi' = [total_km |-> total_distance(df_runs),
                      total_time_min |-> total,
                      total_elevation |-> total_desnivel(df_runs),
                      avg_pace_seconds |-> avg,
                      horas |-> horas_of(total),
                      minutos |-> minutos_of(total)]
           /\ IF ~IsFinite(PyFloorDiv(avg, 60))
              THEN /\ pc' = "fault"
                   /\ fault' = "ValueError"
                   /\ UNCHANGED <<metrics, screen>>
              ELSE /\ metrics' =
                        [distancia |-> Fmt2f(kpi'.total_km) \o <<" ", "k", "m">>,
                         tiempo |-> Str(kpi'.horas) \o <<"h", " ">>
                                    \o Str(kpi'.minutos) \o <<"m", "i", "n">>,
                         desnivel |-> Str(kpi'.total_elevation) \o <<" ", "m">>,
                         ritmo |-> Str(PyInt(PyFloorDiv(avg, 60))) \o <<":">>
                                   \o Fmt02d(PyInt(PyMod(avg, 60)))
                                   \o <<" ", "m", "i", "n", "/", "k", "m">>]
                   /\ screen' = Append(screen, "metrics")
                   /\ pc' = "charts"
                   /\ UNCHANGED fault
    /\ UNCHANGED <<remote, access_token, activities, df_runs, best>>

Charts ==
    /\ pc = "charts"
    /\ screen' = Append(screen, "charts")
    /\ pc' = "best"
    /\ UNCHANGED <<remote, access_token, activities, df_runs, kpi, metrics, best, fault>>

(* lines 147-174: line 152 raises ValueError when no run of at least 1 km  *)
(* has a pace > 0, before any best mark is written.                        *)
BestMarks ==
    /\ pc = "best"
    /\ LET sig == df_significant(df_runs)
       IN  IF sig # <<>>
           THEN IF fastest_candidates(sig) = <<>>
                THEN /\ pc' = "fault"
                     /\ fault' = "ValueError"
                     /\ UNCHANGED <<best, screen>>
                ELSE /\ best' = <<longest_run(sig), fastest_run(sig), most_elevation_run(sig)>>
                     /\ screen' = Append(screen, "best_marks")
                     /\ pc' = "table"
                     /\ UNCHANGED fault
           ELSE /\ screen' = Append(screen, "fallback")
                /\ pc' = "table"
                /\ UNCHANGED <<best, fault>>
    /\ UNCHANGED <<remote, access_token, activities, df_runs, kpi, metrics>>

Table ==
    /\ pc = "table"
    /\ screen' = Append(screen, "table")
    /\ pc' = "done"
    /\ UNCHANGED <<remote, access_token, activities, df_runs, kpi, metrics, best, fault>>

Next ==
    \/ RefreshFails
    \/ ListFails
    \/ Fetch
    \/ Warning
    \/ Process
    \/ Info
    \/ Success
    \/ Summary
    \/ Charts
    \/ BestMarks
    \/ Table

Spec == Init /\ [][Next]_vars

----------------------------------------------------------------------------
(* Vocabulary of the properties *)

Shown == {screen[i] : i \in 1..Len(screen)}

Terminated == pc \in {"done", "fault"}

Processed ==
    \/ pc \in {"processed", "kpi", "charts", "best", "table"}
    \/ Terminated /\ ("info" \in Shown \/ "success" \in Shown)

SummaryRan == pc \in {"charts", "best", "table"} \/ (Terminated /\ "success" \in Shown)

BestMarksRan ==
    \/ pc = "table"
    \/ pc = "done" /\ "success" \in Shown
    \/ pc = "fault" /\ "charts" \in Shown

Rows == {df_runs[i] : i \in 1..Len(df_runs)}

RunActs == {activities[i] : i \in {j \in 1..Len(activities) : activities[j].type = "Run"}}

Digit == {"0", "1", "2", "3", "4", "5", "6", "7", "8", "9"}

DigitVal(c) == CHOOSE d \in 0..9 : DigitChar(d) = c

IsNumeral(s) == Len(s) >= 1 /\ \A i \in 1..Len(s) : s[i] \in Digit

RECURSIVE ParseNat(_)
ParseNat(s) ==
    IF s = <<>> THEN 0
    ELSE 10 * ParseNat(SubSeq(s, 1, Len(s) - 1)) + DigitVal(s[Len(s)])

(* the decimal numeral of n, at least w characters wide, padded with zeros *)
IsPadded(s, n, w) ==
    /\ IsNumeral(s)
    /\ ParseNat(s) = n
    /\ Len(s) >= w
    /\ Len(s) > w => s[1] # "0"

----------------------------------------------------------------------------
(* C1: process_activities builds a row for every 'Run' activity without a  *)
(* fault, whatever its distance and moving time; the row's pace is the     *)
(* sentinel 0 when the moving time is missing or 0 or the distance is      *)
(* missing, 0 or rounds to 0.00 km, and the pace is > 0 exactly when the   *)
(* moving time in seconds is > 0 and the rounded distance is > 0.          *)
C1_PaceSentinel ==
    /\ fault # "ZeroDivisionError"
    /\ Processed =>
         \A a \in RunActs :
            \E r \in Rows :
               /\ r.ID = a.id
               /\ IsFinite(r.Ritmo_seg_km)
               /\ r.Ritmo_seg_km[1] >= 0
               /\ (\/ a.moving_time \in {None, 0}
                   \/ a.distance \in {None, 0}
                   \/ 2 * a.distance < 10
                   \/ r.Distancia_km = 0) => r.Ritmo_seg_km = Zero
               /\ r.Ritmo_seg_km[1] > 0 <=>
                     (a.moving_time # None /\ a.moving_time > 0 /\ r.Distancia_km > 0)

C1_Witness ==
    /\ Processed
    /\ \E a \in RunActs, r \in Rows :
          /\ r.ID = a.id
          /\ a.distance = 4
          /\ a.moving_time = 7000
          /\ r.Ritmo_seg_km = Zero

(* C2: the table has exactly one row per 'Run' activity of the input and   *)
(* no row for another type; it is empty exactly when there is no 'Run'.    *)
C2_OneRowPerRun ==
    Processed =>
       /\ Len(df_runs) = Cardinality(RunActs)
       /\ \A r \in Rows : r.Tipo = "Run"
       /\ \A a \in RunActs : Cardinality({i \in 1..Len(df_runs) : df_runs[i].ID = a.id}) = 1
       /\ df_runs = <<>> <=> RunActs = {}

C2_Witness ==
    /\ Processed
    /\ Len(df_runs) = 1
    /\ Len(activities) = 2
    /\ activities[1].type = "Ride"

(* C3: a failure of the token refresh or of the listing is reported and    *)
(* gives the empty list, never a fault; the pipeline then shows the        *)
(* warning and runs neither the transform nor a display stage; a           *)
(* successful fetch returns at most 100 activities.                        *)
C3_FetchFailureContained ==
    /\ Len(activities) <= 100
    /\ "error" \in Shown =>
          /\ activities = <<>>
          /\ fault = "none"
          /\ pc \in {"fetched", "done"}
          /\ df_runs = <<>>
          /\ kpi = NoKpi
          /\ screen \in {<<"error">>, <<"error", "warning">>}
          /\ pc = "done" <=> screen = <<"error", "warning">>

C3_Witness ==
    /\ pc = "done"
    /\ screen = <<"error", "warning">>
    /\ access_token = "fresh"
    /\ Len(remote) > 100

(* C4: every run ends in exactly one of three outcomes: the warning, the   *)
(* info message, or the rendered dashboard with the success message; no    *)
(* display stage runs unless the table is non-empty.                       *)
C4_ThreeOutcomes ==
    /\ Shown \cap {"metrics", "charts", "best_marks", "fallback", "table"} # {} => df_runs # <<>>
    /\ Terminated =>
          \/ /\ activities = <<>>
             /\ screen \in {<<"warning">>, <<"error", "warning">>}
          \/ /\ activities # <<>>
             /\ RunActs = {}
             /\ screen = <<"info">>
          \/ /\ RunActs # {}
             /\ \/ screen = <<"success", "metrics", "charts", "best_marks", "table">>
                \/ screen = <<"success", "metrics", "charts", "fallback", "table">>

(* C5: for every non-empty table the summary stage completes without a     *)
(* fault and shows the mean of the paces that are > 0, also when no row    *)
(* has a pace > 0.                                                         *)
C5_SummaryWellDefined ==
    SummaryRan =>
       /\ "metrics" \in Shown
       /\ IsFinite(kpi.avg_pace_seconds)
       /\ LET paced == {i \in 1..Len(df_runs) : df_runs[i].Ritmo_seg_km[1] > 0}
          IN  paced # {} =>
                 SumRat([i \in 1..Len(df_runs) |->
                              IF i \in paced THEN df_runs[i].Ritmo_seg_km ELSE Zero])
                    = Rat(kpi.avg_pace_seconds[1] * Cardinality(paced),
                          kpi.avg_pace_seconds[2])

(* C6: whenever a run has at least 1 km, the best-marks stage completes    *)
(* without a fault and the fastest run it shows has distance >= 1 km and   *)
(* pace > 0, minimal among such rows; also when every run of at least 1 km *)
(* has pace 0.                                                             *)
C6_FastestRun ==
    (BestMarksRan /\ \E r \in Rows : r.Distancia_km >= 100) =>
       /\ pc # "fault"
       /\ "best_marks" \in Shown
       /\ Len(best) = 3
       /\ best[2] \in Rows
       /\ best[2].Distancia_km >= 100
       /\ best[2].Ritmo_seg_km[1] > 0
       /\ \A r \in Rows :
             (r.Distancia_km >= 100 /\ r.Ritmo_seg_km[1] > 0)
                => ~RatLess(r.Ritmo_seg_km, best[2].Ritmo_seg_km)

(* C7: best marks come only from runs of at least 1.00 km: the longest run *)
(* has the maximum distance and the most-elevation run the maximum         *)
(* elevation among them; when no run reaches 1 km no best mark is shown    *)
(* and the fallback message is displayed instead.                          *)
C7_BestMarks ==
    /\ best # <<>> =>
          /\ \A i \in 1..Len(best) : best[i] \in Rows /\ best[i].Distancia_km >= 100
          /\ \A r \in Rows : r.Distancia_km >= 100 =>
                /\ r.Distancia_km <= best[1].Distancia_km
                /\ r.Desnivel_m <= best[3].Desnivel_m
    /\ (Terminated /\ "success" \in Shown /\ \A r \in Rows : r.Distancia_km < 100) =>
          /\ best = <<>>
          /\ "best_marks" \notin Shown
          /\ "fallback" \in Shown

(* C8: the non-empty table is ordered by Fecha from most recent to oldest  *)
(* with a fresh index 0..n-1, and its rows are a permutation of the rows   *)
(* built from the 'Run' activities of the input.                           *)
C8_SortedByFecha ==
    (Processed /\ df_runs # <<>>) =>
       /\ \A i \in 1..Len(df_runs) : df_runs[i].index = i - 1
       /\ \A i, j \in 1..Len(df_runs) : i < j => df_runs[i].Fecha >= df_runs[j].Fecha
       /\ Len(df_runs) = Cardinality(RunActs)
       /\ \A a \in RunActs :
             \E i \in 1..Len(df_runs) :
                /\ df_runs[i].ID = a.id
                /\ df_runs[i].Fecha = Row(a).Fecha
                /\ df_runs[i].Distancia_km = Row(a).Distancia_km
                /\ df_runs[i].Tiempo_min = Row(a).Tiempo_min
                /\ df_runs[i].Desnivel_m = Row(a).Desnivel_m
                /\ df_runs[i].Ritmo_seg_km = Row(a).Ritmo_seg_km
                /\ \A j \in 1..Len(df_runs) : df_runs[j].ID = a.id => j = i

C8_Witness ==
    /\ Processed
    /\ Len(df_runs) = 2
    /\ df_runs[1].Fecha > df_runs[2].Fecha
    /\ df_runs[1].ID > df_runs[2].ID

(* C9: a row's display pace is 'N/A' exactly when its pace is 0, and       *)
(* otherwise MM:SS with MM = floor(pace / 60) padded to at least two       *)
(* digits and SS = floor(pace mod 60) padded to two digits, 0 <= SS <= 59, *)
(* MM * 60 + SS = floor(pace).                                             *)
C9_DisplayPace ==
    Processed =>
       \A r \in Rows :
          LET s == r.Ritmo_min_km
              p == r.Ritmo_seg_km
              n == Len(s)
          IN  /\ s = <<"N", "/", "A">> <=> p = Zero
              /\ p # Zero =>
                    /\ n >= 5
                    /\ s[n - 2] = ":"
                    /\ IsPadded(SubSeq(s, 1, n - 3), p[1] \div (60 * p[2]), 2)
                    /\ Len(SubSeq(s, n - 1, n)) = 2
                    /\ IsNumeral(SubSeq(s, n - 1, n))
                    /\ ParseNat(SubSeq(s, n - 1, n)) <= 59
                    /\ ParseNat(SubSeq(s, 1, n - 3)) * 60 + ParseNat(SubSeq(s, n - 1, n))
                          = p[1] \div p[2]

C9_Witness ==
    /\ Processed
    /\ \E r \in Rows :
          /\ r.Ritmo_seg_km = <<315, 1>>
          /\ r.Ritmo_min_km = <<"0", "5", ":", "1", "5">>

(* C10: in the summary stage the total distance, time and elevation are    *)
(* the sums of their columns over all rows, sentinel-pace rows included,   *)
(* and the total time is displayed as 'Hh Mmin' with                       *)
(* H = floor(total minutes / 60) and M = floor(total minutes mod 60).      *)
C10_Totals ==
    SummaryRan =>
       LET n == Len(df_runs)
           total == kpi.total_time_min
       IN  /\ kpi.total_km = SumInt([i \in 1..n |-> df_runs[i].Distancia_km])
           /\ total = SumInt([i \in 1..n |-> df_runs[i].Tiempo_min])
           /\ kpi.total_elevation = SumInt([i \in 1..n |-> df_runs[i].Desnivel_m])
           /\ kpi.horas = total \div 6000
           /\ kpi.minutos \in 0..59
           /\ kpi.horas * 60 + kpi.minutos = total \div 100
           /\ "metrics" \in Shown
           /\ \E k \in 1..Len(metrics.tiempo) :
                 LET t == metrics.tiempo
                     m == Len(t)
                 IN  /\ IsPadded(SubSeq(t, 1, k - 1), total \div 6000, 1)
                     /\ SubSeq(t, k, k + 1) = <<"h", " ">>
                     /\ IsPadded(SubSeq(t, k + 2, m - 3), (total \div 100) % 60, 1)
                     /\ SubSeq(t, m - 2, m) = <<"m", "i", "n">>

====
